---- MODULE Spec2Model ----
(***************************************************************************)
(* Model of the asset canister (src/backend/asset_canister/src/lib.rs):    *)
(* the three stable maps ASSETS, ASSET_ID_COUNTER and FILES, and the       *)
(* update entry points that mutate them.  The canister runtime executes    *)
(* one message at a time, so every entry point is one atomic action.       *)
(* Strings that the code takes apart or concatenates (hashes, urls, text   *)
(* fields) are sequences of one-character strings; error messages are the  *)
(* literal strings of the code.                                            *)
(***************************************************************************)
EXTENDS Integers, Sequences, FiniteSets, TLC

\* ------------------------------------------------------------------ bounds
\* ids the model hands out, values of the clock, update calls that write
MaxAssets == 2
MaxTime == 1
MaxWrites == 3

\* Option<T>
None == [some |-> FALSE]
Some(x) == [some |-> TRUE, v |-> x]

\* ------------------------------------------------------------- input sets
\* Principal::anonymous() and two authenticated principals.
Anonymous == "anonymous"
Principals == {Anonymous, "p1", "p2"}

\* The principals named as new_owner, seller and buyer.
Parties == Principals \ {Anonymous}

H1 == <<"h">>
Hashes == {H1}

\* Vec<u8> payloads.
FileDatas == {<<1, 2>>, <<3>>}

NewPrices == {250}

\* AssetInput values (struct AssetInput).
AssetInputs ==
    { [ name |-> <<"C", "a">>,
        description |-> <<"d">>,
        file_hash |-> H1,
        file_url |-> <<"u">>,
        file_type |-> <<"g">>,
        file_size |-> 2,
        price |-> 100,
        category |-> <<"S", "c">>,
        tags |-> << <<"V">> >>,
        preview_image_url |-> None ] }

\* ------------------------------------------------------------------ state
VARIABLES
    ASSETS,            \* StableBTreeMap<u64, Asset>
    ASSET_ID_COUNTER,  \* StableBTreeMap<u8, u64>, only key 0 is used
    FILES,             \* StableBTreeMap<String, Vec<u8>>
    now,               \* the last value ic_cdk::api::time() returned
    result,            \* the update call being answered: entry point, caller,
                       \* arguments, return value, and the value it found stored
                       \* (the record it looked up, or the blob its insert replaced)
    returned_ids,      \* history: the ids returned by successful uploads, in call order
    last_write,        \* history: the last update call that returned Ok
    listed_by,         \* history: per asset, the caller of set_asset_for_sale(id, true)
                       \* when that is the last successful call that set the asset's
                       \* sale status, None after any other such call
    nwrites            \* history: number of update calls that returned Ok

vars == <<ASSETS, ASSET_ID_COUNTER, FILES, now, result, returned_ids, last_write, listed_by,
          nwrites>>

\* ---------------------------------------------------------------- helpers
Ok(x) == [ok |-> TRUE, v |-> x]
Err(m) == [ok |-> FALSE, msg |-> m]

EmptyMap == [k \in {} |-> 0]

\* Variant: the insertion drops the other entries.
insert_alone(m, k, x) == [y \in {k} |-> x]

\* StableBTreeMap::insert, ::get, ::contains_key, ::len
insert(m, k, x) == [y \in DOMAIN m \cup {k} |-> IF y = k THEN x ELSE m[y]]
get(m, k) == IF k \in DOMAIN m THEN Some(m[k]) ELSE None
contains_key(m, k) == k \in DOMAIN m
len(m) == Cardinality(DOMAIN m)

\* format!("canister://{}", file_hash)
canister_url(file_hash) ==
    <<"c", "a", "n", "i", "s", "t", "e", "r", ":", "/", "/">> \o file_hash

\* What time() may return: the clock never runs backwards.
time == now..MaxTime

\* The error strings of the code, grouped by the kind of failure they report.
Unauthorized == {"Anonymous users cannot upload assets", "Anonymous users cannot upload files"}
Forbidden == {"Only the owner can update the asset price",
              "Only the owner can change sale status",
              "Only the owner can transfer ownership"}
NotFound == {"Asset not found"}
AlreadyExists == {"File already exists"}
InvalidSeller == {"Seller is not the current owner of the asset"}
NotForSale == {"Asset is not for sale"}

\* Asset ids a caller may name.
AssetIds == 1..MaxAssets

\* ------------------------------------------------------------------- Init
NoCall == [op |-> "none", caller |-> Anonymous, args |-> <<>>, ret |-> Ok(<<>>), found |-> None]
NoWrite == [op |-> "none", args |-> <<>>]

Init ==
    /\ ASSETS = EmptyMap
    /\ ASSET_ID_COUNTER = EmptyMap
    /\ FILES = EmptyMap
    /\ now = 0
    /\ result = NoCall
    /\ returned_ids = <<>>
    /\ last_write = NoWrite
    /\ listed_by = EmptyMap
    /\ nwrites = 0

\* The call returns Err: the reply is recorded, the histories do not move.
Rejected(op, principal, args, msg, found) ==
    /\ result' = [op |-> op, caller |-> principal, args |-> args, ret |-> Err(msg),
                  found |-> found]
    /\ UNCHANGED <<now, returned_ids, last_write, listed_by, nwrites>>

\* The listing history after the call has returned Ok(x): the uploads create the
\* asset off sale, set_asset_for_sale sets the status its caller asks for, and
\* the two transfers take the asset off sale.
Listing(op, principal, args, x) ==
    IF op \in {"upload_asset", "upload_asset_with_file"}
    THEN insert(listed_by, x.id, None)
    ELSE IF op = "set_asset_for_sale"
         THEN insert(listed_by, args.asset_id,
                     IF args.for_sale THEN Some(principal) ELSE None)
         ELSE IF op \in {"transfer_asset_ownership", "marketplace_transfer_asset"}
              THEN insert(listed_by, args.asset_id, None)
              ELSE listed_by

\* The call returns Ok(x), having read the clock at current_time.
Returned(op, principal, args, x, found, current_time) ==
    /\ nwrites < MaxWrites
    /\ result' = [op |-> op, caller |-> principal, args |-> args, ret |-> Ok(x),
                  found |-> found]
    /\ now' = current_time
    /\ last_write' = [op |-> op, args |-> args]
    /\ listed_by' = Listing(op, principal, args, x)
    /\ nwrites' = nwrites + 1

\* ------------------------------------------------------ get_next_asset_id
\* Variant: the incremented counter is not written back.
get_next_asset_id_unsaved(counter) ==
    LET current_id == IF contains_key(counter, 0) THEN counter[0] ELSE 0
        next_id == current_id + 1
    IN  [counter |-> counter, next_id |-> next_id]

\* The new counter map and the id handed out.
get_next_asset_id(counter) ==
    LET current_id == IF contains_key(counter, 0) THEN counter[0] ELSE 0
        next_id == current_id + 1
    IN  [counter |-> insert(counter, 0, next_id), next_id |-> next_id]

\* ----------------------------------------------------------- upload_asset
\* Variant: the id is allocated before the caller is checked.
upload_asset_allocates_first(principal, asset_input) ==
    LET args == [asset_input |-> asset_input]
        alloc == get_next_asset_id(ASSET_ID_COUNTER)
        asset_id == alloc.next_id
    IN  IF principal = Anonymous
        THEN /\ asset_id <= MaxAssets
             /\ ASSET_ID_COUNTER' = alloc.counter
             /\ Rejected("upload_asset", principal, args,
                         "Anonymous users cannot upload assets", None)
             /\ UNCHANGED <<ASSETS, FILES>>
        ELSE \E current_time \in time :
             LET asset == [ id |-> asset_id,
                            name |-> asset_input.name,
                            description |-> asset_input.description,
                            owner |-> principal,
                            file_hash |-> asset_input.file_hash,
                            file_url |-> asset_input.file_url,
                            file_type |-> asset_input.file_type,
                            file_size |-> asset_input.file_size,
                            price |-> asset_input.price,
                            is_for_sale |-> FALSE,
                            created_at |-> current_time,
                            updated_at |-> current_time,
                            category |-> asset_input.category,
                            tags |-> asset_input.tags,
                            preview_image_url |-> asset_input.preview_image_url ]
             IN  /\ asset_id <= MaxAssets
                 /\ ASSET_ID_COUNTER' = alloc.counter
                 /\ ASSETS' = insert(ASSETS, asset_id, asset)
                 /\ returned_ids' = Append(returned_ids, asset.id)
                 /\ Returned("upload_asset", principal, args, asset, None, current_time)
                 /\ UNCHANGED FILES

\* Variant: a new asset is for sale at once.
upload_asset_listed(principal, asset_input) ==
    LET args == [asset_input |-> asset_input]
    IN  IF principal = Anonymous
        THEN /\ Rejected("upload_asset", principal, args,
                         "Anonymous users cannot upload assets", None)
             /\ UNCHANGED <<ASSETS, ASSET_ID_COUNTER, FILES>>
        ELSE \E current_time \in time :
             LET alloc == get_next_asset_id(ASSET_ID_COUNTER)
                 asset_id == alloc.next_id
                 asset == [ id |-> asset_id,
                            name |-> asset_input.name,
                            description |-> asset_input.description,
                            owner |-> principal,
                            file_hash |-> asset_input.file_hash,
                            file_url |-> asset_input.file_url,
                            file_type |-> asset_input.file_type,
                            file_size |-> asset_input.file_size,
                            price |-> asset_input.price,
                            is_for_sale |-> TRUE,
                            created_at |-> current_time,
                            updated_at |-> current_time,
                            category |-> asset_input.category,
                            tags |-> asset_input.tags,
                            preview_image_url |-> asset_input.preview_image_url ]
             IN  /\ asset_id <= MaxAssets
                 /\ ASSET_ID_COUNTER' = alloc.counter
                 /\ ASSETS' = insert(ASSETS, asset_id, asset)
                 /\ returned_ids' = Append(returned_ids, asset.id)
                 /\ Returned("upload_asset", principal, args, asset, None, current_time)
                 /\ UNCHANGED FILES

upload_asset(principal, asset_input) ==
    LET args == [asset_input |-> asset_input]
    IN  IF principal = Anonymous
        THEN /\ Rejected("upload_asset", principal, args,
                         "Anonymous users cannot upload assets", None)
             /\ UNCHANGED <<ASSETS, ASSET_ID_COUNTER, FILES>>
        ELSE \E current_time \in time :
             LET alloc == get_next_asset_id(ASSET_ID_COUNTER)
                 asset_id == alloc.next_id
                 asset == [ id |-> asset_id,
                            name |-> asset_input.name,
                            description |-> asset_input.description,
                            owner |-> principal,
                            file_hash |-> asset_input.file_hash,
                            file_url |-> asset_input.file_url,
                            file_type |-> asset_input.file_type,
                            file_size |-> asset_input.file_size,
                            price |-> asset_input.price,
                            is_for_sale |-> FALSE,
                            created_at |-> current_time,
                            updated_at |-> current_time,
                            category |-> asset_input.category,
                            tags |-> asset_input.tags,
                            preview_image_url |-> asset_input.preview_image_url ]
             IN  /\ asset_id <= MaxAssets
                 /\ ASSET_ID_COUNTER' = alloc.counter
                 /\ ASSETS' = insert(ASSETS, asset_id, asset)
                 /\ returned_ids' = Append(returned_ids, asset.id)
                 /\ Returned("upload_asset", principal, args, asset, None, current_time)
                 /\ UNCHANGED FILES

\* ----------------------------------------------------- update_asset_price
\* Variant: the price is written before the owner is checked.
update_asset_price_write_first(principal, asset_id, new_price) ==
    LET found == get(ASSETS, asset_id)
        args == [asset_id |-> asset_id, new_price |-> new_price]
    IN  IF found.some
        THEN IF found.v.owner # principal
             THEN /\ ASSETS' = insert(ASSETS, asset_id, [found.v EXCEPT !.price = new_price])
                  /\ Rejected("update_asset_price", principal, args,
                              "Only the owner can update the asset price", found)
                  /\ UNCHANGED <<ASSET_ID_COUNTER, FILES>>
             ELSE \E current_time \in time :
                  LET asset == [found.v EXCEPT !.price = new_price,
                                               !.updated_at = current_time]
                  IN  /\ ASSETS' = insert(ASSETS, asset_id, asset)
                      /\ Returned("update_asset_price", principal, args, asset, found,
                                  current_time)
                      /\ UNCHANGED <<ASSET_ID_COUNTER, FILES, returned_ids>>
        ELSE /\ Rejected("update_asset_price", principal, args, "Asset not found", found)
             /\ UNCHANGED <<ASSETS, ASSET_ID_COUNTER, FILES>>

\* Variant: a price change takes the asset off sale.
update_asset_price_unlists(principal, asset_id, new_price) ==
    LET found == get(ASSETS, asset_id)
        args == [asset_id |-> asset_id, new_price |-> new_price]
    IN  IF found.some
        THEN IF found.v.owner # principal
             THEN /\ Rejected("update_asset_price", principal, args,
                              "Only the owner can update the asset price", found)
                  /\ UNCHANGED <<ASSETS, ASSET_ID_COUNTER, FILES>>
             ELSE \E current_time \in time :
                  LET asset == [found.v EXCEPT !.price = new_price,
                                               !.is_for_sale = FALSE,
                                               !.updated_at = current_time]
                  IN  /\ ASSETS' = insert(ASSETS, asset_id, asset)
                      /\ Returned("update_asset_price", principal, args, asset, found,
                                  current_time)
                      /\ UNCHANGED <<ASSET_ID_COUNTER, FILES, returned_ids>>
        ELSE /\ Rejected("update_asset_price", principal, args, "Asset not found", found)
             /\ UNCHANGED <<ASSETS, ASSET_ID_COUNTER, FILES>>

update_asset_price(principal, asset_id, new_price) ==
    LET found == get(ASSETS, asset_id)
        args == [asset_id |-> asset_id, new_price |-> new_price]
    IN  IF found.some
        THEN IF found.v.owner # principal
             THEN /\ Rejected("update_asset_price", principal, args,
                              "Only the owner can update the asset price", found)
                  /\ UNCHANGED <<ASSETS, ASSET_ID_COUNTER, FILES>>
             ELSE \E current_time \in time :
                  LET asset == [found.v EXCEPT !.price = new_price,
                                               !.updated_at = current_time]
                  IN  /\ ASSETS' = insert(ASSETS, asset_id, asset)
                      /\ Returned("update_asset_price", principal, args, asset, found,
                                  current_time)
                      /\ UNCHANGED <<ASSET_ID_COUNTER, FILES, returned_ids>>
        ELSE /\ Rejected("update_asset_price", principal, args, "Asset not found", found)
             /\ UNCHANGED <<ASSETS, ASSET_ID_COUNTER, FILES>>

\* ----------------------------------------------------- set_asset_for_sale
\* Variant: the owner check is missing.
set_asset_for_sale_unchecked(principal, asset_id, for_sale) ==
    LET found == get(ASSETS, asset_id)
        args == [asset_id |-> asset_id, for_sale |-> for_sale]
    IN  IF found.some
        THEN \E current_time \in time :
             LET asset == [found.v EXCEPT !.is_for_sale = for_sale,
                                          !.updated_at = current_time]
             IN  /\ ASSETS' = insert(ASSETS, asset_id, asset)
                 /\ Returned("set_asset_for_sale", principal, args, asset, found,
                             current_time)
                 /\ UNCHANGED <<ASSET_ID_COUNTER, FILES, returned_ids>>
        ELSE /\ Rejected("set_asset_for_sale", principal, args, "Asset not found", found)
             /\ UNCHANGED <<ASSETS, ASSET_ID_COUNTER, FILES>>

\* Variant: updated_at is not refreshed.
set_asset_for_sale_stale(principal, asset_id, for_sale) ==
    LET found == get(ASSETS, asset_id)
        args == [asset_id |-> asset_id, for_sale |-> for_sale]
    IN  IF found.some
        THEN IF found.v.owner # principal
             THEN /\ Rejected("set_asset_for_sale", principal, args,
                              "Only the owner can change sale status", found)
                  /\ UNCHANGED <<ASSETS, ASSET_ID_COUNTER, FILES>>
             ELSE \E current_time \in time :
                  LET asset == [found.v EXCEPT !.is_for_sale = for_sale]
                  IN  /\ ASSETS' = insert(ASSETS, asset_id, asset)
                      /\ Returned("set_asset_for_sale", principal, args, asset, found,
                                  current_time)
                      /\ UNCHANGED <<ASSET_ID_COUNTER, FILES, returned_ids>>
        ELSE /\ Rejected("set_asset_for_sale", principal, args, "Asset not found", found)
             /\ UNCHANGED <<ASSETS, ASSET_ID_COUNTER, FILES>>

set_asset_for_sale(principal, asset_id, for_sale) ==
    LET found == get(ASSETS, asset_id)
        args == [asset_id |-> asset_id, for_sale |-> for_sale]
    IN  IF found.some
        THEN IF found.v.owner # principal
             THEN /\ Rejected("set_asset_for_sale", principal, args,
                              "Only the owner can change sale status", found)
                  /\ UNCHANGED <<ASSETS, ASSET_ID_COUNTER, FILES>>
             ELSE \E current_time \in time :
                  LET asset == [found.v EXCEPT !.is_for_sale = for_sale,
                                               !.updated_at = current_time]
                  IN  /\ ASSETS' = insert(ASSETS, asset_id, asset)
                      /\ Returned("set_asset_for_sale", principal, args, asset, found,
                                  current_time)
                      /\ UNCHANGED <<ASSET_ID_COUNTER, FILES, returned_ids>>
        ELSE /\ Rejected("set_asset_for_sale", principal, args, "Asset not found", found)
             /\ UNCHANGED <<ASSETS, ASSET_ID_COUNTER, FILES>>

\* ----------------------------------------------- transfer_asset_ownership
\* Variant: the transfer leaves is_for_sale as it was.
transfer_asset_ownership_keeps_listing(principal, asset_id, new_owner) ==
    LET found == get(ASSETS, asset_id)
        args == [asset_id |-> asset_id, new_owner |-> new_owner]
    IN  IF found.some
        THEN IF found.v.owner # principal
             THEN /\ Rejected("transfer_asset_ownership", principal, args,
                              "Only the owner can transfer ownership", found)
                  /\ UNCHANGED <<ASSETS, ASSET_ID_COUNTER, FILES>>
             ELSE \E current_time \in time :
                  LET asset == [found.v EXCEPT !.owner = new_owner,
                                               !.updated_at = current_time]
                  IN  /\ ASSETS' = insert(ASSETS, asset_id, asset)
                      /\ Returned("transfer_asset_ownership", principal, args, asset, found,
                                  current_time)
                      /\ UNCHANGED <<ASSET_ID_COUNTER, FILES, returned_ids>>
        ELSE /\ Rejected("transfer_asset_ownership", principal, args, "Asset not found", found)
             /\ UNCHANGED <<ASSETS, ASSET_ID_COUNTER, FILES>>

\* Variant: the transfer stamps created_at anew.
transfer_asset_ownership_restamps(principal, asset_id, new_owner) ==
    LET found == get(ASSETS, asset_id)
        args == [asset_id |-> asset_id, new_owner |-> new_owner]
    IN  IF found.some
        THEN IF found.v.owner # principal
             THEN /\ Rejected("transfer_asset_ownership", principal, args,
                              "Only the owner can transfer ownership", found)
                  /\ UNCHANGED <<ASSETS, ASSET_ID_COUNTER, FILES>>
             ELSE \E current_time \in time :
                  LET asset == [found.v EXCEPT !.owner = new_owner,
                                               !.is_for_sale = FALSE,
                                               !.created_at = current_time,
                                               !.updated_at = current_time]
                  IN  /\ ASSETS' = insert(ASSETS, asset_id, asset)
                      /\ Returned("transfer_asset_ownership", principal, args, asset, found,
                                  current_time)
                      /\ UNCHANGED <<ASSET_ID_COUNTER, FILES, returned_ids>>
        ELSE /\ Rejected("transfer_asset_ownership", principal, args, "Asset not found", found)
             /\ UNCHANGED <<ASSETS, ASSET_ID_COUNTER, FILES>>

transfer_asset_ownership(principal, asset_id, new_owner) ==
    LET found == get(ASSETS, asset_id)
        args == [asset_id |-> asset_id, new_owner |-> new_owner]
    IN  IF found.some
        THEN IF found.v.owner # principal
             THEN /\ Rejected("transfer_asset_ownership", principal, args,
                              "Only the owner can transfer ownership", found)
                  /\ UNCHANGED <<ASSETS, ASSET_ID_COUNTER, FILES>>
             ELSE \E current_time \in time :
                  LET asset == [found.v EXCEPT !.owner = new_owner,
                                               !.is_for_sale = FALSE,
                                               !.updated_at = current_time]
                  IN  /\ ASSETS' = insert(ASSETS, asset_id, asset)
                      /\ Returned("transfer_asset_ownership", principal, args, asset, found,
                                  current_time)
                      /\ UNCHANGED <<ASSET_ID_COUNTER, FILES, returned_ids>>
        ELSE /\ Rejected("transfer_asset_ownership", principal, args, "Asset not found", found)
             /\ UNCHANGED <<ASSETS, ASSET_ID_COUNTER, FILES>>

\* ------------------------------------------------------------ upload_file
\* Variant: the contains_key check is missing.
upload_file_overwrite(principal, file_hash, file_data) ==
    LET args == [file_hash |-> file_hash, file_data |-> file_data]
    IN  IF principal = Anonymous
        THEN /\ Rejected("upload_file", principal, args,
                         "Anonymous users cannot upload files", None)
             /\ UNCHANGED <<ASSETS, ASSET_ID_COUNTER, FILES>>
        ELSE /\ FILES' = insert(FILES, file_hash, file_data)
             /\ Returned("upload_file", principal, args, file_hash, None, now)
             /\ UNCHANGED <<ASSETS, ASSET_ID_COUNTER, returned_ids>>

upload_file(principal, file_hash, file_data) ==
    LET args == [file_hash |-> file_hash, file_data |-> file_data]
    IN  IF principal = Anonymous
        THEN /\ Rejected("upload_file", principal, args,
                         "Anonymous users cannot upload files", None)
             /\ UNCHANGED <<ASSETS, ASSET_ID_COUNTER, FILES>>
        ELSE IF contains_key(FILES, file_hash)
             THEN /\ Rejected("upload_file", principal, args, "File already exists", None)
                  /\ UNCHANGED <<ASSETS, ASSET_ID_COUNTER, FILES>>
             ELSE /\ FILES' = insert(FILES, file_hash, file_data)
                  /\ Returned("upload_file", principal, args, file_hash, None, now)
                  /\ UNCHANGED <<ASSETS, ASSET_ID_COUNTER, returned_ids>>

\* ------------------------------------------------- upload_asset_with_file
\* Variant: the blob is stored before the caller is checked.
upload_asset_with_file_blob_first(principal, asset_input, file_data) ==
    LET args == [asset_input |-> asset_input, file_data |-> file_data]
    IN  IF principal = Anonymous
        THEN /\ FILES' = insert(FILES, asset_input.file_hash, file_data)
             /\ Rejected("upload_asset_with_file", principal, args,
                         "Anonymous users cannot upload assets", None)
             /\ UNCHANGED <<ASSETS, ASSET_ID_COUNTER>>
        ELSE \E current_time \in time :
             LET file_hash == asset_input.file_hash
                 alloc == get_next_asset_id(ASSET_ID_COUNTER)
                 asset_id == alloc.next_id
                 asset == [ id |-> asset_id,
                            name |-> asset_input.name,
                            description |-> asset_input.description,
                            owner |-> principal,
                            file_hash |-> file_hash,
                            file_url |-> canister_url(file_hash),
                            file_type |-> asset_input.file_type,
                            file_size |-> asset_input.file_size,
                            price |-> asset_input.price,
                            is_for_sale |-> FALSE,
                            created_at |-> current_time,
                            updated_at |-> current_time,
                            category |-> asset_input.category,
                            tags |-> asset_input.tags,
                            preview_image_url |-> asset_input.preview_image_url ]
             IN  /\ asset_id <= MaxAssets
                 /\ FILES' = insert(FILES, file_hash, file_data)
                 /\ ASSET_ID_COUNTER' = alloc.counter
                 /\ ASSETS' = insert(ASSETS, asset_id, asset)
                 /\ returned_ids' = Append(returned_ids, asset.id)
                 /\ Returned("upload_asset_with_file", principal, args, asset,
                             get(FILES, file_hash), current_time)

\* Variant: a hash that is already stored is refused, as upload_file does.
upload_asset_with_file_insert_once(principal, asset_input, file_data) ==
    LET args == [asset_input |-> asset_input, file_data |-> file_data]
    IN  IF principal = Anonymous
        THEN /\ Rejected("upload_asset_with_file", principal, args,
                         "Anonymous users cannot upload assets", None)
             /\ UNCHANGED <<ASSETS, ASSET_ID_COUNTER, FILES>>
        ELSE IF contains_key(FILES, asset_input.file_hash)
             THEN /\ Rejected("upload_asset_with_file", principal, args,
                              "File already exists", None)
                  /\ UNCHANGED <<ASSETS, ASSET_ID_COUNTER, FILES>>
             ELSE \E current_time \in time :
                  LET file_hash == asset_input.file_hash
                      alloc == get_next_asset_id(ASSET_ID_COUNTER)
                      asset_id == alloc.next_id
                      asset == [ id |-> asset_id,
                                 name |-> asset_input.name,
                                 description |-> asset_input.description,
                                 owner |-> principal,
                                 file_hash |-> file_hash,
                                 file_url |-> canister_url(file_hash),
                                 file_type |-> asset_input.file_type,
                                 file_size |-> asset_input.file_size,
                                 price |-> asset_input.price,
                                 is_for_sale |-> FALSE,
                                 created_at |-> current_time,
                                 updated_at |-> current_time,
                                 category |-> asset_input.category,
                                 tags |-> asset_input.tags,
                                 preview_image_url |-> asset_input.preview_image_url ]
                  IN  /\ asset_id <= MaxAssets
                      /\ FILES' = insert(FILES, file_hash, file_data)
                      /\ ASSET_ID_COUNTER' = alloc.counter
                      /\ ASSETS' = insert(ASSETS, asset_id, asset)
                      /\ returned_ids' = Append(returned_ids, asset.id)
                      /\ Returned("upload_asset_with_file", principal, args, asset,
                                  get(FILES, file_hash), current_time)

\* Variant: the caller's file_url is kept.
upload_asset_with_file_input_url(principal, asset_input, file_data) ==
    LET args == [asset_input |-> asset_input, file_data |-> file_data]
    IN  IF principal = Anonymous
        THEN /\ Rejected("upload_asset_with_file", principal, args,
                         "Anonymous users cannot upload assets", None)
             /\ UNCHANGED <<ASSETS, ASSET_ID_COUNTER, FILES>>
        ELSE \E current_time \in time :
             LET file_hash == asset_input.file_hash
                 alloc == get_next_asset_id(ASSET_ID_COUNTER)
                 asset_id == alloc.next_id
                 asset == [ id |-> asset_id,
                            name |-> asset_input.name,
                            description |-> asset_input.description,
                            owner |-> principal,
                            file_hash |-> file_hash,
                            file_url |-> asset_input.file_url,
                            file_type |-> asset_input.file_type,
                            file_size |-> asset_input.file_size,
                            price |-> asset_input.price,
                            is_for_sale |-> FALSE,
                            created_at |-> current_time,
                            updated_at |-> current_time,
                            category |-> asset_input.category,
                            tags |-> asset_input.tags,
                            preview_image_url |-> asset_input.preview_image_url ]
             IN  /\ asset_id <= MaxAssets
                 /\ FILES' = insert(FILES, file_hash, file_data)
                 /\ ASSET_ID_COUNTER' = alloc.counter
                 /\ ASSETS' = insert(ASSETS, asset_id, asset)
                 /\ returned_ids' = Append(returned_ids, asset.id)
                 /\ Returned("upload_asset_with_file", principal, args, asset,
                             get(FILES, file_hash), current_time)

upload_asset_with_file(principal, asset_input, file_data) ==
    LET args == [asset_input |-> asset_input, file_data |-> file_data]
    IN  IF principal = Anonymous
        THEN /\ Rejected("upload_asset_with_file", principal, args,
                         "Anonymous users cannot upload assets", None)
             /\ UNCHANGED <<ASSETS, ASSET_ID_COUNTER, FILES>>
        ELSE \E current_time \in time :
             LET file_hash == asset_input.file_hash
                 alloc == get_next_asset_id(ASSET_ID_COUNTER)
                 asset_id == alloc.next_id
                 asset == [ id |-> asset_id,
                            name |-> asset_input.name,
                            description |-> asset_input.description,
                            owner |-> principal,
                            file_hash |-> file_hash,
                            file_url |-> canister_url(file_hash),
                            file_type |-> asset_input.file_type,
                            file_size |-> asset_input.file_size,
                            price |-> asset_input.price,
                            is_for_sale |-> FALSE,
                            created_at |-> current_time,
                            updated_at |-> current_time,
                            category |-> asset_input.category,
                            tags |-> asset_input.tags,
                            preview_image_url |-> asset_input.preview_image_url ]
             IN  /\ asset_id <= MaxAssets
                 /\ FILES' = insert(FILES, file_hash, file_data)
                 /\ ASSET_ID_COUNTER' = alloc.counter
                 /\ ASSETS' = insert(ASSETS, asset_id, asset)
                 /\ returned_ids' = Append(returned_ids, asset.id)
                 /\ Returned("upload_asset_with_file", principal, args, asset,
                             get(FILES, file_hash), current_time)

\* --------------------------------------------- marketplace_transfer_asset
\* Variant: the sale status is checked before the seller.
marketplace_transfer_asset_sale_first(principal, asset_id, seller, buyer) ==
    LET found == get(ASSETS, asset_id)
        args == [asset_id |-> asset_id, seller |-> seller, buyer |-> buyer]
    IN  IF found.some
        THEN IF ~found.v.is_for_sale
             THEN /\ Rejected("marketplace_transfer_asset", principal, args,
                              "Asset is not for sale", found)
                  /\ UNCHANGED <<ASSETS, ASSET_ID_COUNTER, FILES>>
             ELSE IF found.v.owner # seller
                  THEN /\ Rejected("marketplace_transfer_asset", principal, args,
                                   "Seller is not the current owner of the asset", found)
                       /\ UNCHANGED <<ASSETS, ASSET_ID_COUNTER, FILES>>
                  ELSE \E current_time \in time :
                       LET asset == [found.v EXCEPT !.owner = buyer,
                                                    !.is_for_sale = FALSE,
                                                    !.updated_at = current_time]
                       IN  /\ ASSETS' = insert(ASSETS, asset_id, asset)
                           /\ Returned("marketplace_transfer_asset", principal, args, asset,
                                       found, current_time)
                           /\ UNCHANGED <<ASSET_ID_COUNTER, FILES, returned_ids>>
        ELSE /\ Rejected("marketplace_transfer_asset", principal, args, "Asset not found",
                         found)
             /\ UNCHANGED <<ASSETS, ASSET_ID_COUNTER, FILES>>

\* Variant: the sale status is not checked.
marketplace_transfer_asset_any_status(principal, asset_id, seller, buyer) ==
    LET found == get(ASSETS, asset_id)
        args == [asset_id |-> asset_id, seller |-> seller, buyer |-> buyer]
    IN  IF found.some
        THEN IF found.v.owner # seller
             THEN /\ Rejected("marketplace_transfer_asset", principal, args,
                              "Seller is not the current owner of the asset", found)
                  /\ UNCHANGED <<ASSETS, ASSET_ID_COUNTER, FILES>>
             ELSE \E current_time \in time :
                  LET asset == [found.v EXCEPT !.owner = buyer,
                                               !.is_for_sale = FALSE,
                                               !.updated_at = current_time]
                  IN  /\ ASSETS' = insert(ASSETS, asset_id, asset)
                      /\ Returned("marketplace_transfer_asset", principal, args, asset,
                                  found, current_time)
                      /\ UNCHANGED <<ASSET_ID_COUNTER, FILES, returned_ids>>
        ELSE /\ Rejected("marketplace_transfer_asset", principal, args, "Asset not found",
                         found)
             /\ UNCHANGED <<ASSETS, ASSET_ID_COUNTER, FILES>>

\* Variant: the transfer leaves is_for_sale as it was.
marketplace_transfer_asset_keeps_listing(principal, asset_id, seller, buyer) ==
    LET found == get(ASSETS, asset_id)
        args == [asset_id |-> asset_id, seller |-> seller, buyer |-> buyer]
    IN  IF found.some
        THEN IF found.v.owner # seller
             THEN /\ Rejected("marketplace_transfer_asset", principal, args,
                              "Seller is not the current owner of the asset", found)
                  /\ UNCHANGED <<ASSETS, ASSET_ID_COUNTER, FILES>>
             ELSE IF ~found.v.is_for_sale
                  THEN /\ Rejected("marketplace_transfer_asset", principal, args,
                                   "Asset is not for sale", found)
                       /\ UNCHANGED <<ASSETS, ASSET_ID_COUNTER, FILES>>
                  ELSE \E current_time \in time :
                       LET asset == [found.v EXCEPT !.owner = buyer,
                                                    !.updated_at = current_time]
                       IN  /\ ASSETS' = insert(ASSETS, asset_id, asset)
                           /\ Returned("marketplace_transfer_asset", principal, args, asset,
                                       found, current_time)
                           /\ UNCHANGED <<ASSET_ID_COUNTER, FILES, returned_ids>>
        ELSE /\ Rejected("marketplace_transfer_asset", principal, args, "Asset not found",
                         found)
             /\ UNCHANGED <<ASSETS, ASSET_ID_COUNTER, FILES>>

\* Variant: only the seller may carry out the sale.
marketplace_transfer_asset_seller_only(principal, asset_id, seller, buyer) ==
    LET found == get(ASSETS, asset_id)
        args == [asset_id |-> asset_id, seller |-> seller, buyer |-> buyer]
    IN  IF found.some
        THEN IF found.v.owner # seller \/ principal # seller
             THEN /\ Rejected("marketplace_transfer_asset", principal, args,
                              "Seller is not the current owner of the asset", found)
                  /\ UNCHANGED <<ASSETS, ASSET_ID_COUNTER, FILES>>
             ELSE IF ~found.v.is_for_sale
                  THEN /\ Rejected("marketplace_transfer_asset", principal, args,
                                   "Asset is not for sale", found)
                       /\ UNCHANGED <<ASSETS, ASSET_ID_COUNTER, FILES>>
                  ELSE \E current_time \in time :
                       LET asset == [found.v EXCEPT !.owner = buyer,
                                                    !.is_for_sale = FALSE,
                                                    !.updated_at = current_time]
                       IN  /\ ASSETS' = insert(ASSETS, asset_id, asset)
                           /\ Returned("marketplace_transfer_asset", principal, args, asset,
                                       found, current_time)
                           /\ UNCHANGED <<ASSET_ID_COUNTER, FILES, returned_ids>>
        ELSE /\ Rejected("marketplace_transfer_asset", principal, args, "Asset not found",
                         found)
             /\ UNCHANGED <<ASSETS, ASSET_ID_COUNTER, FILES>>

marketplace_transfer_asset(principal, asset_id, seller, buyer) ==
    LET found == get(ASSETS, asset_id)
        args == [asset_id |-> asset_id, seller |-> seller, buyer |-> buyer]
    IN  IF found.some
        THEN IF found.v.owner # seller
             THEN /\ Rejected("marketplace_transfer_asset", principal, args,
                              "Seller is not the current owner of the asset", found)
                  /\ UNCHANGED <<ASSETS, ASSET_ID_COUNTER, FILES>>
             ELSE IF ~found.v.is_for_sale
                  THEN /\ Rejected("marketplace_transfer_asset", principal, args,
                                   "Asset is not for sale", found)
                       /\ UNCHANGED <<ASSETS, ASSET_ID_COUNTER, FILES>>
                  ELSE \E current_time \in time :
                       LET asset == [found.v EXCEPT !.owner = buyer,
                                                    !.is_for_sale = FALSE,
                                                    !.updated_at = current_time]
                       IN  /\ ASSETS' = insert(ASSETS, asset_id, asset)
                           /\ Returned("marketplace_transfer_asset", principal, args, asset,
                                       found, current_time)
                           /\ UNCHANGED <<ASSET_ID_COUNTER, FILES, returned_ids>>
        ELSE /\ Rejected("marketplace_transfer_asset", principal, args, "Asset not found",
                         found)
             /\ UNCHANGED <<ASSETS, ASSET_ID_COUNTER, FILES>>

\* ---------------------------------------------------------------- queries
get_asset(asset_id) == get(ASSETS, asset_id)
get_file(file_hash) == get(FILES, file_hash)
get_total_assets == len(ASSETS)

\* ------------------------------------------------------------------ reply
\* The reply of the call has been delivered to its caller.
reply ==
    /\ result # NoCall
    /\ result' = NoCall
    /\ UNCHANGED <<ASSETS, ASSET_ID_COUNTER, FILES, now, returned_ids, last_write,
                   listed_by, nwrites>>

\* The runtime executes one message at a time: a call starts once the previous
\* reply is out.  The arguments of each entry point are drawn from the input sets.
idle == result = NoCall

call_upload_asset ==
    idle /\ \E principal \in Principals, asset_input \in AssetInputs :
                upload_asset(principal, asset_input)

call_upload_asset_with_file ==
    idle /\ \E principal \in Principals, asset_input \in AssetInputs, file_data \in FileDatas :
                upload_asset_with_file(principal, asset_input, file_data)

call_upload_file ==
    idle /\ \E principal \in Principals, file_hash \in Hashes, file_data \in FileDatas :
                upload_file(principal, file_hash, file_data)

call_update_asset_price ==
    idle /\ \E principal \in Principals, asset_id \in AssetIds, new_price \in NewPrices :
                update_asset_price(principal, asset_id, new_price)

call_set_asset_for_sale ==
    idle /\ \E principal \in Principals, asset_id \in AssetIds, for_sale \in BOOLEAN :
                set_asset_for_sale(principal, asset_id, for_sale)

call_transfer_asset_ownership ==
    idle /\ \E principal \in Principals, asset_id \in AssetIds, new_owner \in Parties :
                transfer_asset_ownership(principal, asset_id, new_owner)

call_marketplace_transfer_asset ==
    idle /\ \E principal \in Principals, asset_id \in AssetIds, seller \in Parties,
               buyer \in Parties :
                marketplace_transfer_asset(principal, asset_id, seller, buyer)

Next ==
    \/ call_upload_asset
    \/ call_upload_asset_with_file
    \/ call_upload_file
    \/ call_update_asset_price
    \/ call_set_asset_for_sale
    \/ call_transfer_asset_ownership
    \/ call_marketplace_transfer_asset
    \/ reply

Spec == Init /\ [][Next]_vars

\* ---------------------------------------------------------- search_assets
\* Longest text a caller supplies as a text field or as a query.
MaxLen == 2

\* The characters of those texts: a Latin letter in both cases, the Greek
\* sigma in both cases, and the apostrophe.
Alphabet == {"c", "C", "σ", "Σ", "'"}

\* What a caller may supply as a String: every text over Alphabet up to MaxLen.
Texts == UNION { [1..n -> Alphabet] : n \in 0..MaxLen }

\* char::to_lowercase of the letters used here; every other character maps to itself.
Uppercase == <<"A", "C", "S", "V">>
Lowercase == <<"a", "c", "s", "v">>
to_lower(c) ==
    IF \E i \in DOMAIN Uppercase : Uppercase[i] = c
    THEN Lowercase[CHOOSE i \in DOMAIN Uppercase : Uppercase[i] = c]
    ELSE IF c = "Σ" THEN "σ" ELSE c

\* The Unicode properties Cased and Case_Ignorable, on the characters used here.
Cased(c) ==
    \/ \E i \in DOMAIN Uppercase : c \in {Uppercase[i], Lowercase[i]}
    \/ c \in {"Σ", "σ", "ς", "d", "g", "h", "u"}
Case_Ignorable(c) == c \in {"'", ".", ":", "^"}

\* case_ignorable_then_cased over from[i], from[i + step], ...: the first
\* character that is not case-ignorable exists and is cased.
RECURSIVE case_ignorable_then_cased(_, _, _)
case_ignorable_then_cased(from, i, step) ==
    IF i < 1 \/ i > Len(from)
    THEN FALSE
    ELSE IF Case_Ignorable(from[i])
         THEN case_ignorable_then_cased(from, i + step, step)
         ELSE Cased(from[i])

\* A capital sigma lower-cases to the final form at the end of a word: after a
\* cased letter and not before one.
map_uppercase_sigma(from, i) ==
    LET is_word_final == /\ case_ignorable_then_cased(from, i - 1, -1)
                         /\ ~case_ignorable_then_cased(from, i + 1, 1)
    IN  IF is_word_final THEN "ς" ELSE "σ"

\* str::to_lowercase
to_lowercase(from) ==
    [i \in 1..Len(from) |->
        IF from[i] = "Σ" THEN map_uppercase_sigma(from, i) ELSE to_lower(from[i])]

\* str::contains: pat occurs in s as a contiguous substring.
contains(s, pat) ==
    \E i \in 0..(Len(s) - Len(pat)) : SubSeq(s, i + 1, i + Len(pat)) = pat

\* The filter closure of search_assets.
search_matches(asset, query_lower) ==
    \/ contains(to_lowercase(asset.name), query_lower)
    \/ contains(to_lowercase(asset.description), query_lower)
    \/ contains(to_lowercase(asset.category), query_lower)
    \/ \E t \in DOMAIN asset.tags : contains(to_lowercase(asset.tags[t]), query_lower)

\* StableBTreeMap::iter: the values in ascending key order.
RECURSIVE iter(_)
iter(m) ==
    IF DOMAIN m = {}
    THEN <<>>
    ELSE LET k == CHOOSE x \in DOMAIN m : \A y \in DOMAIN m : y <= x
         IN  Append(iter([y \in DOMAIN m \ {k} |-> m[y]]), m[k])

search_assets(query) ==
    LET query_lower == to_lowercase(query)
    IN  SelectSeq(iter(ASSETS), LAMBDA asset : search_matches(asset, query_lower))

\* The query call: it reads the asset map and changes nothing.
call_search_assets ==
    idle /\ \E query \in Texts :
                /\ result' = [op |-> "search_assets", caller |-> Anonymous,
                              args |-> [query |-> query], ret |-> search_assets(query),
                              found |-> None]
                /\ UNCHANGED <<ASSETS, ASSET_ID_COUNTER, FILES, now, returned_ids,
                               last_write, listed_by, nwrites>>

\* The text fields an upload takes from its caller.
TextFields == {"name", "description", "category", "tag"}

\* The record upload_asset stores for principal "p1" at time 0 with text as one
\* of the text fields of its input.
Uploaded(asset_id, field, text) ==
    LET asset_input == CHOOSE x \in AssetInputs : TRUE
    IN  [ id |-> asset_id,
          name |-> IF field = "name" THEN text ELSE asset_input.name,
          description |-> IF field = "description" THEN text ELSE asset_input.description,
          owner |-> "p1",
          file_hash |-> asset_input.file_hash,
          file_url |-> asset_input.file_url,
          file_type |-> asset_input.file_type,
          file_size |-> asset_input.file_size,
          price |-> asset_input.price,
          is_for_sale |-> FALSE,
          created_at |-> 0,
          updated_at |-> 0,
          category |-> IF field = "category" THEN text ELSE asset_input.category,
          tags |-> IF field = "tag" THEN <<text>> ELSE asset_input.tags,
          preview_image_url |-> asset_input.preview_image_url ]

\* The states searched: "p1" has uploaded two assets, the first with a text
\* over Alphabet in one of its text fields, the second with the sample input.
SearchInit ==
    \E field \in TextFields, text \in Texts :
        /\ ASSETS = insert(insert(EmptyMap, 1, Uploaded(1, field, text)),
                           2, Uploaded(2, "name", (CHOOSE x \in AssetInputs : TRUE).name))
        /\ ASSET_ID_COUNTER = insert(EmptyMap, 0, 2)
        /\ FILES = EmptyMap
        /\ now = 0
        /\ result = NoCall
        /\ returned_ids = <<1, 2>>
        /\ last_write = [op |-> "upload_asset",
                         args |-> [asset_input |-> CHOOSE x \in AssetInputs : TRUE]]
        /\ listed_by = insert(insert(EmptyMap, 1, None), 2, None)
        /\ nwrites = 2

SearchNext ==
    \/ call_search_assets
    \/ reply

SearchSpec == SearchInit /\ [][SearchNext]_vars

\* ----------------------------------------------------------------- claims
\* A step in which an update call is executed, and the entry point it runs.
IsCall(op) == result = NoCall /\ result'.op = op
Uploads == {"upload_asset", "upload_asset_with_file"}
OwnerGated == {"update_asset_price", "set_asset_for_sale", "transfer_asset_ownership"}
Failed(r, kind) == ~r.ret.ok /\ r.ret.msg \in kind

\* C1: the ids returned by successful upload_asset and upload_asset_with_file
\* calls are strictly increasing in call order, so none is returned twice,
\* whatever calls are made in between.
C1_IdsStrictlyIncreasing ==
    \A i, j \in 1..Len(returned_ids) : i < j => returned_ids[i] < returned_ids[j]

\* Two uploads have returned ids, with another successful call besides them, and
\* the last call is the second upload.
C1_Witness ==
    /\ result.op \in Uploads
    /\ result.ret.ok
    /\ Len(returned_ids) = 2
    /\ result.ret.v.id = returned_ids[2]
    /\ nwrites = 3

\* C2: upload_asset and upload_asset_with_file by the anonymous principal fail
\* with the anonymous-caller error and leave the asset map, the id counter and
\* the file store as they were.
C2_AnonymousUploadRejected ==
    [][ \A op \in Uploads :
          (IsCall(op) /\ result'.caller = Anonymous)
          => /\ Failed(result', Unauthorized)
             /\ UNCHANGED <<ASSETS, ASSET_ID_COUNTER, FILES>> ]_vars

\* An anonymous upload_asset_with_file has been answered while assets and blobs exist.
C2_Witness ==
    /\ result.op = "upload_asset_with_file"
    /\ result.caller = Anonymous
    /\ ~result.ret.ok
    /\ ASSETS # EmptyMap
    /\ FILES # EmptyMap

\* C3: update_asset_price, set_asset_for_sale and transfer_asset_ownership on
\* an existing asset, called by anyone but its current owner, fail with the
\* only-the-owner error and leave the stored record unchanged in every field.
C3_NonOwnerForbidden ==
    [][ \A op \in OwnerGated :
          ( /\ IsCall(op)
            /\ result'.args.asset_id \in DOMAIN ASSETS
            /\ ASSETS[result'.args.asset_id].owner # result'.caller )
          => /\ Failed(result', Forbidden)
             /\ result'.args.asset_id \in DOMAIN ASSETS'
             /\ ASSETS'[result'.args.asset_id] = ASSETS[result'.args.asset_id] ]_vars

\* The seller of the last marketplace transfer, no longer the owner, has tried
\* to change the price of the asset it sold.
C3_Witness ==
    /\ result.op = "update_asset_price"
    /\ Failed(result, Forbidden)
    /\ last_write.op = "marketplace_transfer_asset"
    /\ last_write.args.asset_id = result.args.asset_id
    /\ last_write.args.seller = result.caller
    /\ last_write.args.buyer # result.caller

\* C4: after transfer_asset_ownership(id, new_owner) has returned Ok,
\* get_asset(id) has owner = new_owner and is_for_sale = FALSE.
C4_TransferSetsOwnerAndUnlists ==
    (result.op = "transfer_asset_ownership" /\ result.ret.ok)
    => LET got == get_asset(result.args.asset_id)
       IN  /\ got.some
           /\ got.v.owner = result.args.new_owner
           /\ got.v.is_for_sale = FALSE

\* An owner has transferred an asset that was for sale to itself.
C4_Witness ==
    /\ result.op = "transfer_asset_ownership"
    /\ result.ret.ok
    /\ result.found.v.is_for_sale
    /\ result.args.new_owner = result.caller

\* The hash a call stores a blob under, for the two entry points that store blobs.
Stores == {"upload_file", "upload_asset_with_file"}
StoredHash(r) ==
    IF r.op = "upload_file" THEN r.args.file_hash ELSE r.args.asset_input.file_hash

\* C5: a blob stored under a hash is immutable: get_file(h) keeps returning the
\* bytes first stored under h, and every later call that would store bytes
\* under h is rejected.
C5_BlobImmutable ==
    [][ /\ \A h \in DOMAIN FILES : get(FILES', h) = get(FILES, h)
        /\ \A op \in Stores :
             (IsCall(op) /\ result'.caller # Anonymous /\ StoredHash(result') \in DOMAIN FILES)
             => ~result'.ret.ok ]_vars

RepeatsTransfer ==
    /\ IsCall("marketplace_transfer_asset")
    /\ last_write.op = "marketplace_transfer_asset"
    /\ result'.args = last_write.args

\* C7 as stated: after the upload of A by O1, set_asset_for_sale(A, TRUE) by O1
\* and marketplace_transfer_asset(A, O1, O2) have succeeded, the record has
\* owner = O2 and is_for_sale = FALSE, and the same transfer called again fails
\* with the not-for-sale error.
C7_SecondTransferNotForSale ==
    [][ RepeatsTransfer
        => /\ ASSETS[last_write.args.asset_id].owner = last_write.args.buyer
           /\ ~ASSETS[last_write.args.asset_id].is_for_sale
           /\ Failed(result', NotForSale) ]_vars

\* C7 amended: ... the record has owner = O2 and is_for_sale = FALSE, and the
\* same transfer called again fails and leaves the record unchanged: with the
\* invalid-seller error when O2 differs from O1, with the not-for-sale error
\* when O2 is O1.
C7_SecondTransferFails ==
    [][ RepeatsTransfer
        => /\ ASSETS[last_write.args.asset_id].owner = last_write.args.buyer
           /\ ~ASSETS[last_write.args.asset_id].is_for_sale
           /\ IF last_write.args.buyer # last_write.args.seller
              THEN Failed(result', InvalidSeller)
              ELSE Failed(result', NotForSale)
           /\ ASSETS' = ASSETS ]_vars

\* The transfer from O1 to another principal O2 has been called a second time.
C7_Witness ==
    /\ result.op = "marketplace_transfer_asset"
    /\ ~result.ret.ok
    /\ last_write.op = "marketplace_transfer_asset"
    /\ result.args = last_write.args
    /\ result.args.seller # result.args.buyer
    /\ ASSETS[result.args.asset_id].owner = result.args.buyer

\* C8: marketplace_transfer_asset(id, seller, buyer) fails not-found when id is
\* absent; on an existing asset it fails invalid-seller whenever owner # seller,
\* fails not-for-sale whenever owner = seller and is_for_sale is false, and
\* succeeds exactly when owner = seller and is_for_sale is true; a failing
\* call leaves the record unchanged.
C8_MarketplaceTransferOutcome ==
    [][ IsCall("marketplace_transfer_asset")
        => LET id == result'.args.asset_id
               seller == result'.args.seller
           IN  IF id \notin DOMAIN ASSETS
               THEN Failed(result', NotFound) /\ ASSETS' = ASSETS
               ELSE /\ ASSETS[id].owner # seller => Failed(result', InvalidSeller)
                    /\ (ASSETS[id].owner = seller /\ ~ASSETS[id].is_for_sale)
                       => Failed(result', NotForSale)
                    /\ result'.ret.ok <=> (ASSETS[id].owner = seller /\ ASSETS[id].is_for_sale)
                    /\ ~result'.ret.ok => ASSETS' = ASSETS ]_vars

\* A transfer naming the wrong seller has been refused for an asset that is for sale.
C8_Witness ==
    /\ result.op = "marketplace_transfer_asset"
    /\ Failed(result, InvalidSeller)
    /\ result.found.v.is_for_sale
    /\ get_asset(result.args.asset_id).v.is_for_sale

\* C9: in every step, an asset whose owner after the step differs from its
\* owner before it has is_for_sale = FALSE after the step.
C9_OwnerChangeUnlists ==
    [][ \A id \in DOMAIN ASSETS :
          (id \in DOMAIN ASSETS' /\ ASSETS'[id].owner # ASSETS[id].owner)
          => ~ASSETS'[id].is_for_sale ]_vars

\* An asset that was for sale has changed owner.
C9_Witness ==
    /\ result.op \in {"transfer_asset_ownership", "marketplace_transfer_asset"}
    /\ result.ret.ok
    /\ result.found.v.is_for_sale
    /\ result.found.v.owner # get_asset(result.args.asset_id).v.owner

\* C10: an update call that returns an error leaves the asset map, the id
\* counter and the file store as they were before the call.
C10_ErrorLeavesStateUnchanged ==
    [][ (result = NoCall /\ result' # NoCall /\ ~result'.ret.ok)
        => UNCHANGED <<ASSETS, ASSET_ID_COUNTER, FILES>> ]_vars

\* A call has been refused while assets, a counter value and a blob exist.
C10_Witness ==
    /\ result # NoCall
    /\ ~result.ret.ok
    /\ result.op = "upload_file"
    /\ ASSETS # EmptyMap
    /\ ASSET_ID_COUNTER # EmptyMap
    /\ FILES # EmptyMap

\* C11: the outcome of marketplace_transfer_asset(id, seller, buyer) does not
\* depend on the caller: whatever a call answers and whatever state it leaves,
\* the same call made from the same state at the same time by any other
\* principal, the anonymous one included, answers the same and leaves the same
\* state.
C11_CallerIndependent ==
    [][ IsCall("marketplace_transfer_asset")
        => \E o \in { [ args |-> result'.args, ret |-> result'.ret, at |-> now',
                        assets |-> ASSETS', counter |-> ASSET_ID_COUNTER',
                        files |-> FILES' ] } :
             \A principal \in Principals :
               ENABLED ( /\ marketplace_transfer_asset(principal, o.args.asset_id,
                                                       o.args.seller, o.args.buyer)
                         /\ result'.ret = o.ret
                         /\ now' = o.at
                         /\ ASSETS' = o.assets
                         /\ ASSET_ID_COUNTER' = o.counter
                         /\ FILES' = o.files ) ]_vars

\* The anonymous principal, neither seller nor buyer, has carried out a sale.
C11_Witness ==
    /\ result.op = "marketplace_transfer_asset"
    /\ result.ret.ok
    /\ result.caller = Anonymous
    /\ get_asset(result.args.asset_id).v.owner = result.args.buyer
    /\ result.args.buyer # result.args.seller

\* C12: upload_asset_with_file(input, file_bytes) by a caller other than the
\* anonymous principal returns Ok, never the already-exists error, and
\* get_file(input.file_hash) returns file_bytes right after it, also when other
\* bytes were stored under that hash before.
C12_UploadWithFileOverwrites ==
    [][ (IsCall("upload_asset_with_file") /\ result'.caller # Anonymous)
        => /\ result'.ret.ok
           /\ get(FILES', result'.args.asset_input.file_hash)
                = Some(result'.args.file_data) ]_vars

\* The call has replaced other bytes stored under its hash.
C12_Witness ==
    /\ result.op = "upload_asset_with_file"
    /\ result.ret.ok
    /\ result.found.some
    /\ result.found.v # result.args.file_data
    /\ get_file(result.args.asset_input.file_hash) = Some(result.args.file_data)

\* The entry points that change a stored record.
Mutations == OwnerGated \cup {"marketplace_transfer_asset"}

\* C13: with a clock that never runs backwards, every stored asset has
\* updated_at >= created_at after every step, and every successful
\* update_asset_price, set_asset_for_sale, transfer_asset_ownership and
\* marketplace_transfer_asset sets the record's updated_at to the time of the
\* call and leaves its created_at unchanged.
C13_UpdatedAtRefreshed ==
    [][ /\ \A id \in DOMAIN ASSETS' : ASSETS'[id].updated_at >= ASSETS'[id].created_at
        /\ \A op \in Mutations :
             (IsCall(op) /\ result'.ret.ok)
             => LET id == result'.args.asset_id
                IN  /\ ASSETS'[id].updated_at = now'
                    /\ ASSETS'[id].created_at = ASSETS[id].created_at ]_vars

\* A sale has been carried out later than the asset was created and last changed.
C13_Witness ==
    /\ result.op = "marketplace_transfer_asset"
    /\ result.ret.ok
    /\ get_asset(result.args.asset_id).v.updated_at = now
    /\ get_asset(result.args.asset_id).v.updated_at > result.found.v.updated_at
    /\ get_asset(result.args.asset_id).v.created_at = result.found.v.created_at
    /\ result.found.v.updated_at >= result.found.v.created_at

\* Two texts that differ only in letter case: the same length, and at each
\* position the same character or the two cases of one letter.
CasePairs == {{"c", "C"}, {"σ", "Σ"}}
DifferOnlyInCase(q1, q2) ==
    /\ Len(q1) = Len(q2)
    /\ \A i \in 1..Len(q1) : q1[i] = q2[i] \/ {q1[i], q2[i]} \in CasePairs

\* C14: search_assets(q) is case-insensitive: a stored asset is returned if and
\* only if the lower-cased q is a substring of its lower-cased name, description
\* or category or of one of its lower-cased tags, and two queries that differ only
\* in letter case return the same assets.
C14_SearchCaseInsensitive ==
    result.op = "search_assets"
    => LET query == result.args.query
           returned == {result.ret[i] : i \in DOMAIN result.ret}
       IN  /\ \A id \in DOMAIN ASSETS :
                ASSETS[id] \in returned <=> search_matches(ASSETS[id], to_lowercase(query))
           /\ \A other \in Texts :
                DifferOnlyInCase(query, other) => search_assets(other) = result.ret

\* C15: a successful upload_asset or upload_asset_with_file by caller c creates
\* exactly one new record, with owner = c, is_for_sale = FALSE,
\* created_at = updated_at = the time of the call, and file_url = input.file_url
\* for upload_asset but "canister://" + input.file_hash for upload_asset_with_file;
\* the asset returned is what get_asset(returned.id) returns right after the
\* call, and get_total_assets has grown by exactly 1.
C15_UploadCreatesRecord ==
    [][ \A op \in Uploads :
          (IsCall(op) /\ result'.ret.ok)
          => LET asset == result'.ret.v
                 input == result'.args.asset_input
             IN  /\ asset.id \notin DOMAIN ASSETS
                 /\ DOMAIN ASSETS' = DOMAIN ASSETS \cup {asset.id}
                 /\ \A id \in DOMAIN ASSETS : ASSETS'[id] = ASSETS[id]
                 /\ asset.owner = result'.caller
                 /\ asset.is_for_sale = FALSE
                 /\ asset.created_at = now'
                 /\ asset.updated_at = now'
                 /\ asset.file_url = IF op = "upload_asset"
                                     THEN input.file_url
                                     ELSE <<"c", "a", "n", "i", "s", "t", "e", "r", ":", "/", "/">>
                                          \o input.file_hash
                 /\ get(ASSETS', asset.id) = Some(asset)
                 /\ len(ASSETS') = len(ASSETS) + 1 ]_vars

\* upload_asset_with_file has created a second asset; its file_url is not the one
\* its input carried.
C15_Witness ==
    /\ result.op = "upload_asset_with_file"
    /\ result.ret.ok
    /\ get_total_assets = 2
    /\ get_asset(result.ret.v.id) = Some(result.ret.v)
    /\ result.ret.v.file_url # result.args.asset_input.file_url
    /\ result.ret.v.owner = result.caller

\* The fields of a record that are fixed when it is created.
Fixed(asset) ==
    [ id |-> asset.id, file_hash |-> asset.file_hash, file_url |-> asset.file_url,
      file_type |-> asset.file_type, file_size |-> asset.file_size,
      created_at |-> asset.created_at, name |-> asset.name,
      description |-> asset.description, category |-> asset.category,
      tags |-> asset.tags, preview_image_url |-> asset.preview_image_url ]

\* C16: once an asset exists, its id, file_hash, file_url, file_type, file_size,
\* created_at, name, description, category, tags and preview_image_url never
\* change: every step that changes the asset map, of a call that succeeds or
\* fails, leaves the asset in the map with these fields as they were.
C16_FixedFieldsNeverChange ==
    [][ \/ UNCHANGED ASSETS
        \/ \A id \in DOMAIN ASSETS :
             /\ contains_key(ASSETS', id)
             /\ \/ ASSETS'[id] = ASSETS[id]
                \/ Fixed(ASSETS'[id]) = Fixed(ASSETS[id]) ]_vars

\* An asset has been handed to another owner later than it was created.
C16_Witness ==
    /\ result.op = "transfer_asset_ownership"
    /\ result.ret.ok
    /\ get_asset(result.args.asset_id).v # result.found.v
    /\ get_asset(result.args.asset_id).v.owner # result.found.v.owner
    /\ get_asset(result.args.asset_id).v.updated_at > result.found.v.created_at
    /\ Fixed(get_asset(result.args.asset_id).v) = Fixed(result.found.v)

\* The record was created by upload_asset_with_file: of the inputs used here,
\* only that entry point stores a file_url made from the hash.
CreatedWithFile(asset) == asset.file_url = canister_url(asset.file_hash)

\* C17: no asset record and no blob is ever removed: what get_asset(id) or
\* get_file(h) finds before a step it finds after it, and so every asset
\* created by upload_asset_with_file has a blob under its file_hash, right after
\* the call that created it and after every later step that changes a map.
C17_NothingRemoved ==
    [][ \/ UNCHANGED <<ASSETS, FILES>>
        \/ /\ \A id \in DOMAIN ASSETS : contains_key(ASSETS', id)
           /\ \A h \in DOMAIN FILES : contains_key(FILES', h)
           /\ \A id \in DOMAIN ASSETS' :
                CreatedWithFile(ASSETS'[id])
                => contains_key(FILES', ASSETS'[id].file_hash) ]_vars

\* The first asset came with its file, two more calls have succeeded since, the
\* last of them an upload, and the file is still stored.
C17_Witness ==
    /\ result.op = "upload_asset"
    /\ result.ret.ok
    /\ result.ret.v.id = 2
    /\ nwrites = 3
    /\ CreatedWithFile(get_asset(1).v)
    /\ get_file(get_asset(1).v.file_hash).some

\* The entry points that hand an asset to another owner.
Transfers == {"transfer_asset_ownership", "marketplace_transfer_asset"}

\* C18: a successful update_asset_price changes only price and updated_at of
\* its target record, a successful set_asset_for_sale only is_for_sale and
\* updated_at, a successful transfer_asset_ownership or
\* marketplace_transfer_asset only owner, is_for_sale and updated_at; the other
\* records, the id counter and the file store stay as they were, and the owner of
\* an asset changes in no step but a successful transfer of that asset.
C18_MutationFrame ==
    [][ /\ \A op \in Mutations :
             (IsCall(op) /\ result'.ret.ok)
             => LET id == result'.args.asset_id
                    old == ASSETS[id]
                    new == ASSETS'[id]
                IN  /\ DOMAIN ASSETS' = DOMAIN ASSETS
                    /\ \A other \in DOMAIN ASSETS \ {id} : ASSETS'[other] = ASSETS[other]
                    /\ UNCHANGED <<ASSET_ID_COUNTER, FILES>>
                    /\ op = "update_asset_price"
                       => new = [old EXCEPT !.price = new.price,
                                            !.updated_at = new.updated_at]
                    /\ op = "set_asset_for_sale"
                       => new = [old EXCEPT !.is_for_sale = new.is_for_sale,
                                            !.updated_at = new.updated_at]
                    /\ op \in Transfers
                       => new = [old EXCEPT !.owner = new.owner,
                                            !.is_for_sale = new.is_for_sale,
                                            !.updated_at = new.updated_at]
        /\ \A id \in DOMAIN ASSETS :
             ASSETS'[id].owner # ASSETS[id].owner
             => \E op \in Transfers :
                  IsCall(op) /\ result'.ret.ok /\ result'.args.asset_id = id ]_vars

\* The owner has changed the price of an asset that is for sale; it is still
\* for sale and still the owner's.
C18_Witness ==
    /\ result.op = "update_asset_price"
    /\ result.ret.ok
    /\ result.found.v.is_for_sale
    /\ result.ret.v.price # result.found.v.price
    /\ get_asset(result.args.asset_id).v.is_for_sale
    /\ get_asset(result.args.asset_id).v.owner = result.found.v.owner

\* The persisted identifier counter, 0 while nothing has been allocated.
Counter == IF contains_key(ASSET_ID_COUNTER, 0) THEN ASSET_ID_COUNTER[0] ELSE 0

\* C19: in every reachable state the ids in the asset map are exactly
\* 1..counter, counter being the persisted identifier counter (0 when it was
\* never written): get_total_assets equals the counter and the number of
\* successful uploads so far, every record's id field is the key it is stored
\* under, and no id is allocated without a record stored for it.
C19_IdsAreOneToCounter ==
    /\ DOMAIN ASSETS = 1..Counter
    /\ get_total_assets = Counter
    /\ get_total_assets = Len(returned_ids)
    /\ \A id \in DOMAIN ASSETS : ASSETS[id].id = id

\* Two uploads have succeeded and an anonymous upload has been refused since.
C19_Witness ==
    /\ result.op \in Uploads
    /\ Failed(result, Unauthorized)
    /\ Counter = 2
    /\ get_total_assets = 2
    /\ returned_ids = <<1, 2>>

\* C20: in every reachable state an asset that is for sale was listed by its
\* current owner: the last successful call that set its sale status was a
\* set_asset_for_sale(id, true) made by the principal that owns it now, and no
\* transfer of the asset has succeeded since.
C20_ListedByCurrentOwner ==
    \A id \in DOMAIN ASSETS :
        ASSETS[id].is_for_sale => get(listed_by, id) = Some(Some(ASSETS[id].owner))

\* The owner has changed the price of an asset it had listed before; the
\* listing is still the owner's.
C20_Witness ==
    /\ result.op = "update_asset_price"
    /\ result.ret.ok
    /\ get_asset(result.args.asset_id).v.is_for_sale
    /\ get(listed_by, result.args.asset_id) = Some(Some(result.caller))
    /\ get_asset(result.args.asset_id).v.owner = result.caller
====
